---- MODULE Spec2Model ----
(***************************************************************************)
(* A model of hb04.py, the driver of the HB04 CNC pendant.                 *)
(*                                                                         *)
(* Coordinates of the four positional axes are held in ten-thousandths     *)
(* (the value 1.2345 is the integer 12345): encode_float multiplies by     *)
(* 10000 and rounds first, so on that grid round(fabs(v)*10000.0) is |v|   *)
(* exactly.  Values of the four rate axes are integers.                    *)
(***************************************************************************)
EXTENDS Integers, Sequences, FiniteSets, TLC

(* ------------------------------ bounds -------------------------------- *)
\* thread slots besides the caller's (main) thread
MaxThreads == 5
\* transport faults the environment injects (unplug, busy, other, no endpoint)
MaxFaults == 1
\* facade calls made by the caller
MaxCalls == 1
\* samples per numeric range in the codec specification
NSamples == 3

(* --------------------------- protocol tables --------------------------- *)
\* hb04.reset: tables as sets of <<name, code>>
button_names ==
    { <<"", 0>>, <<"reset", 23>>, <<"stop", 22>>, <<"go-zero", 1>>,
      <<"start", 2>>, <<"rewind", 3>>, <<"probe-z", 4>>, <<"spindle", 12>>,
      <<"half", 6>>, <<"zero", 7>>, <<"safe-z", 8>>, <<"go-home", 9>>,
      <<"macro1", 10>>, <<"macro2", 11>>, <<"macro3", 5>>, <<"step", 13>>,
      <<"mode", 14>>, <<"macro6", 15>>, <<"macro7", 16>> }

multiplier_values ==
    { <<"", 0>>, <<"1", 1>>, <<"5", 2>>, <<"10", 3>>, <<"20", 4>>, <<"30", 5>>,
      <<"40", 6>>, <<"50", 7>>, <<"100", 8>>, <<"500", 9>>, <<"1000", 10>>,
      <<"P6", 11>> }

icon_values ==
    { <<"no-icon", 0>>, <<"go-zero", 16>>, <<"no-touchoff", 32>>,
      <<"go-home", 80>>, <<"j-squiggily", 96>> }

units_values == { <<"mm", 0>>, <<"inch", 128>> }

axis_select_switch ==
    { <<"off", 0>>, <<"x", 17>>, <<"y", 18>>, <<"z", 19>>, <<"a", 24>>,
      <<"spindle", 20>>, <<"feed", 21>> }

\* dict membership, dict[key], and the inverse tables code2Button/code2Axis
Keys(table) == { e[1] : e \in table }
Codes(table) == { e[2] : e \in table }
\* a variant of Lookup that yields code 0 for every name: the property of
\* C12 must tell it from Lookup
LookupZero(table, key) == 0

Lookup(table, key) == (CHOOSE e \in table : e[1] = key)[2]
NameOf(table, code) == (CHOOSE e \in table : e[2] = code)[1]

\* hb04.reset: the axis-es, four positional and four integer (rate) axes
FloatAxes == {"x", "y", "z", "a"}
IntAxes == {"feed", "feed-actual", "spindle", "spindle-actual"}
axis_list == FloatAxes \cup IntAxes
integerAxis(name) == name \in IntAxes

(* ----------------------------- binary codec ---------------------------- *)
Abs(v) == IF v < 0 THEN -v ELSE v

RECURSIVE BitOr(_, _)
BitOr(a, b) ==
    IF a = 0 THEN b
    ELSE IF b = 0 THEN a
    ELSE (IF a % 2 = 1 \/ b % 2 = 1 THEN 1 ELSE 0) + 2 * BitOr(a \div 2, b \div 2)

\* int.to_bytes(2, 'little') of n in 0..65535
LE16(n) == << n % 256, (n \div 256) % 256 >>

\* a codec result: the bytes, or the exception the code raises
Bytes(b) == [ok |-> TRUE, bytes |-> b]
Raised == [ok |-> FALSE, bytes |-> << >>]

\* a variant of encode_float that leaves the sign bit out: the property of
\* C10 must tell it from encode_float
encode_float_unsigned(v) ==
    LET int_v == Abs(v)
        int_part == (int_v \div 10000) % 65536
        fract_part == (int_v % 10000) % 65536
    IN  LE16(int_part) \o LE16(fract_part)

\* Axis.encode_float, v in ten-thousandths
encode_float(v) ==
    LET int_v == Abs(v)
        int_part == (int_v \div 10000) % 65536
        fract0 == (int_v % 10000) % 65536
        fract_part == IF v < 0 THEN BitOr(fract0, 32768) ELSE fract0
    IN  LE16(int_part) \o LE16(fract_part)

\* Axis.limit_num; max_units of a float axis is 9999.9999
limit_num(isInt, x0) ==
    LET x == IF isInt /\ x0 < 0 THEN 0 ELSE x0
        max_units == IF isInt THEN 65535 ELSE 99999999
    IN  IF x > max_units THEN max_units
        ELSE IF x < -max_units THEN -max_units
        ELSE x

\* int.to_bytes(2, "little", signed=True): OverflowError outside -32768..32767
to_bytes_s16(v) ==
    IF v >= -32768 /\ v <= 32767 THEN Bytes(LE16((v + 65536) % 65536)) ELSE Raised

\* Axis.encode_s16
encode_s16(v) == to_bytes_s16(limit_num(TRUE, v))

\* Axis.display
display(isInt, v) == IF isInt THEN encode_s16(v) ELSE Bytes(encode_float(v))

\* a variant of sign_extend that leaves the byte unsigned: the property of
\* C15 must tell it from sign_extend
sign_extend_unsigned(value) == value

\* sign_extend
sign_extend(value) == IF value > 127 THEN (256 - value) * (-1) ELSE value

\* hb04.sendData: pad to 42 bytes
RECURSIVE Pad(_)
Pad(data) == IF Len(data) < 42 THEN Pad(Append(data, 0)) ELSE data

\* a variant of Packet that starts every packet at the head of the frame:
\* the property of C7 must tell it from Packet
PacketFromHead(data, p) == <<6>> \o [i \in 1..7 |-> data[i]]

\* hb04.sendData: the 6 packets, a 0x06 lead-in then the next 7 bytes each
Packet(data, p) == <<6>> \o [i \in 1..7 |-> data[7 * (p - 1) + i]]
Packets(data) == [p \in 1..6 |-> Packet(Pad(data), p)]


(* ------------------------------- state --------------------------------- *)
VARIABLES
    \* hb04 fields
    running, reconnecting, disconnecting, reattach, dev,
    axis_switch, icon, units, multiplier_code, axes,
    machine_event_handler, updateLock,
    \* the threads: slot 0 is the caller of the facade, 1..MaxThreads the rest
    th,
    \* the transport: device plugged in, host's default driver attached,
    \* and the packets so far of the frame being written to the device
    devPresent, kernelActive, wire,
    \* budgets of the environment
    faults, calls,
    \* history: the last report processed, the caller's last facade call,
    \* the display-loop frame that follows it, disconnect() has been called,
    \* the in-place rediscovery under way
    evt, call, watch, disconnectCalled, redisc,
    \* the codec specification: operation, inputs, result, packets written
    cop, cin, cdata, cout, cwire

hbVars == << running, reconnecting, disconnecting, reattach, dev, axis_switch,
             icon, units, multiplier_code, axes, machine_event_handler,
             updateLock >>
envVars == << devPresent, kernelActive, wire, faults, calls >>
histVars == << evt, call, watch, disconnectCalled, redisc >>
codecVars == << cop, cin, cdata, cout, cwire >>
vars == << hbVars, th, envVars, histVars, codecVars >>

Free == -1
Main == 0
Slots == 1..MaxThreads

\* a thread: what it runs, where it is, the labels it returns to, and the
\* locals of updateDisplay/sendData (data, packets written, the axis each
\* of the two tests of axis_switch selected)
Idle == [kind |-> "none", pc |-> "dead", stack |-> << >>, data |-> << >>,
         n |-> 0, selW |-> "", selM |-> ""]
NewThread(k, p) == [Idle EXCEPT !.kind = k, !.pc = p]

NoEvent == [button |-> "", button2 |-> "", axis |-> "", increment |-> 0]
NoEvt == [by |-> -1, report |-> << >>, fatal |-> FALSE,
         invoked |-> FALSE, raised |-> FALSE, event |-> NoEvent]
NoCall == [op |-> "none", name |-> "", setW |-> FALSE, w |-> 0, setM |-> FALSE,
           m |-> 0, fatal |-> FALSE, afterFatal |-> FALSE, sent |-> FALSE,
           result |-> "none"]
NoWatch == [on |-> FALSE, name |-> "", by |-> -1, frame |-> << >>, selW |-> "", selM |-> ""]
NoWire == [owner |-> -1, pkts |-> << >>]

\* hb04.__init__ / hb04.reset, and Axis.reset for each axis
SessionInit ==
    /\ running = FALSE
    /\ reconnecting = FALSE
    /\ disconnecting = FALSE
    /\ reattach = FALSE
    /\ dev = "None"
    /\ axis_switch = "off"
    /\ icon = 0
    /\ units = 0
    /\ multiplier_code = 1
    /\ axes = [a \in axis_list |-> [work_coordinate |-> 0, machine_coordinate |-> 0]]
    /\ machine_event_handler = "None"
    /\ updateLock = Free
    /\ th = [t \in {Main} \cup Slots |->
               IF t = Main THEN NewThread("main", "m_idle")
               ELSE IF t = 1 THEN NewThread("connect", "c_start")
               ELSE Idle]
    /\ devPresent = FALSE
    /\ kernelActive = FALSE
    /\ wire = NoWire
    /\ faults = 0
    /\ calls = 0
    /\ evt = NoEvt
    /\ call = NoCall
    /\ watch = NoWatch
    /\ disconnectCalled = FALSE
    /\ redisc = "none"

CodecIdle ==
    /\ cop = "idle"
    /\ cin = 0
    /\ cdata = << >>
    /\ cout = Bytes(<< >>)
    /\ cwire = << >>

Init == SessionInit /\ CodecIdle


(* ------------------------- threads and control ------------------------- *)
Threads == {Main} \cup Slots
FreeSlots == { i \in Slots : th[i].kind = "none" }
Lowest(S) == CHOOSE i \in S : \A j \in S : i <= j

\* a function returns: to the label on top of the stack, or the thread ends
Return(r) ==
    IF r.stack = << >>
        THEN IF r.kind = "main" THEN [NewThread("main", "m_exited") EXCEPT !.stack = << >>]
             ELSE Idle
        ELSE [r EXCEPT !.pc = Head(r.stack), !.stack = Tail(r.stack),
                       !.data = << >>, !.n = 0, !.selW = "", !.selM = ""]

\* an exception no handler catches: the thread ends
Dies(r) == IF r.kind = "main" THEN NewThread("main", "m_exited") ELSE Idle

\* hb04.isRunning
isRunning == running \/ reconnecting

\* hb04.disconnect, given the reattach flag and driver state it finds
disconnect(reatt, kact) ==
    /\ running' = FALSE
    /\ disconnecting' = TRUE
    /\ kernelActive' = IF reatt /\ dev = "dev" /\ devPresent /\ ~kact THEN TRUE ELSE kact
    /\ disconnectCalled' = TRUE

\* in-place rediscovery ends unresolved when a disconnect or a new fault comes
Voided == IF redisc \in { "found", "pending" } THEN "void" ELSE redisc

(* ----------------------------- connect_hb04 ---------------------------- *)
\* connect_hb04, line 261
ConnectStart(t) ==
    /\ th[t].pc = "c_start"
    /\ disconnecting' = FALSE
    /\ th' = [th EXCEPT ![t].pc = "c_poll"]
    /\ UNCHANGED << running, reconnecting, reattach, dev, axis_switch, icon, units,
                    multiplier_code, axes, machine_event_handler, updateLock,
                    envVars, histVars, codecVars >>

\* connect_hb04, one turn of the discovery loop (sleeping .1 on a miss)
ConnectPoll(t) ==
    /\ th[t].pc = "c_poll"
    /\ IF disconnecting
         THEN /\ th' = [th EXCEPT ![t] = Return(th[t])]
              /\ UNCHANGED << dev, redisc >>
         ELSE IF devPresent
           THEN /\ dev' = "dev"
                /\ th' = [th EXCEPT ![t].pc = "c_claim"]
                /\ redisc' = IF th[t].kind = "recv" /\ redisc = "none"
                               THEN "found" ELSE redisc
           ELSE /\ dev' = "None"
                /\ UNCHANGED << th, redisc >>
    /\ UNCHANGED << running, reconnecting, disconnecting, reattach, axis_switch,
                    icon, units, multiplier_code, axes, machine_event_handler,
                    updateLock, envVars, evt, call, watch, disconnectCalled,
                    codecVars >>

\* connect_hb04, lines 274-284: detach the host's driver, take the endpoint.
\* A device that has gone makes is_kernel_driver_active raise, uncaught;
\* no usable endpoint is fatal.
ConnectClaim(t) ==
    /\ th[t].pc = "c_claim"
    /\ \/ /\ ~devPresent
          /\ th' = [th EXCEPT ![t] = Dies(th[t])]
          /\ redisc' = IF th[t].kind = "recv" /\ redisc = "found" THEN "void" ELSE redisc
          /\ UNCHANGED << running, disconnecting, reattach, kernelActive, faults,
                          disconnectCalled >>
       \/ /\ devPresent
          /\ reattach' = (reattach \/ kernelActive)
          /\ kernelActive' = FALSE
          /\ th' = [th EXCEPT ![t].pc = "c_listen"]
          /\ UNCHANGED << running, disconnecting, faults, disconnectCalled, redisc >>
       \/ /\ devPresent
          /\ faults < MaxFaults
          /\ faults' = faults + 1
          /\ reattach' = (reattach \/ kernelActive)
          /\ disconnect(reattach', FALSE)
          /\ th' = [th EXCEPT ![t] = Dies(th[t])]
          /\ redisc' = IF th[t].kind = "recv" /\ redisc = "found" THEN "void" ELSE redisc
    /\ UNCHANGED << reconnecting, dev, axis_switch, icon, units, multiplier_code,
                    axes, machine_event_handler, updateLock, devPresent, wire,
                    calls, evt, call, watch, codecVars >>

\* startListening, then connect_hb04 goes on to forceDisplayUpdate
StartListening(t) ==
    /\ th[t].pc = "c_listen"
    /\ Cardinality(FreeSlots) >= 2
    /\ LET s1 == Lowest(FreeSlots)
           s2 == Lowest(FreeSlots \ {s1})
       IN  th' = [th EXCEPT ![t].pc = "u_work",
                            ![s1] = NewThread("recv", "r_loop"),
                            ![s2] = NewThread("disp", "d_loop")]
    /\ running' = TRUE
    /\ redisc' = IF th[t].kind = "recv" /\ redisc = "found" THEN "pending" ELSE redisc
    /\ UNCHANGED << reconnecting, disconnecting, reattach, dev, axis_switch, icon,
                    units, multiplier_code, axes, machine_event_handler, updateLock,
                    envVars, evt, call, watch, disconnectCalled, codecVars >>


(* --------------------- updateDisplay and sendData ---------------------- *)
\* the display bytes of one coordinate of one axis
wc_display(name) == display(integerAxis(name), axes[name].work_coordinate)
mc_display(name) == display(integerAxis(name), axes[name].machine_coordinate)
\* a variant of actual_display that reads the axis named '<name>-actual':
\* the property of C23 must tell it from actual_display
actual_display_of_actual(name) ==
    wc_display(IF name = "feed" THEN "feed-actual" ELSE "spindle-actual")

\* Axis.actual_display / Axis.setrate_display: aliases of the two coordinates
actual_display(name) == wc_display(name)
setrate_display(name) == mc_display(name)

\* a variant of UpdateWork that puts axis x in the first slot whatever the
\* switch says: the property of C11 must tell it from UpdateWork
UpdateWorkAlwaysX(t) ==
    /\ th[t].pc = "u_work"
    /\ th' = [th EXCEPT ![t].pc = "u_rest",
                        ![t].selW = "x",
                        ![t].data = << 254, 253, 12 >> \o wc_display("x").bytes
                                    \o wc_display("y").bytes \o wc_display("z").bytes]
    /\ UNCHANGED << hbVars, envVars, histVars, codecVars >>

\* updateDisplay, lines 403-420: the header and the work coordinates
UpdateWork(t) ==
    /\ th[t].pc = "u_work"
    /\ LET first == IF axis_switch = "a" THEN "a" ELSE "x"
       IN  th' = [th EXCEPT ![t].pc = "u_rest",
                            ![t].selW = first,
                            ![t].data = << 254, 253, 12 >> \o wc_display(first).bytes
                                        \o wc_display("y").bytes \o wc_display("z").bytes]
    /\ UNCHANGED << hbVars, envVars, histVars, codecVars >>

\* a variant of RestParts with the spindle fields ahead of the feed fields:
\* the property of C21 must tell it from RestParts
RestPartsSpindleFirst(first) ==
    << mc_display(first), mc_display("y"), mc_display("z"),
       actual_display("spindle"), actual_display("feed"),
       setrate_display("spindle"), setrate_display("feed") >>

\* the parts of the frame updateDisplay appends on lines 421-431
RestParts(first) ==
    << mc_display(first), mc_display("y"), mc_display("z"),
       actual_display("feed"), actual_display("spindle"),
       setrate_display("feed"), setrate_display("spindle") >>

RECURSIVE Concat(_)
Concat(parts) == IF parts = << >> THEN << >> ELSE Head(parts).bytes \o Concat(Tail(parts))

\* updateDisplay, lines 421-434: machine coordinates, rates, status, units.
\* An encoding that raises leaves updateDisplay; forceDisplayUpdate then
\* takes the fatal path, which nothing above it catches.
UpdateRest(t) ==
    /\ th[t].pc = "u_rest"
    /\ LET first == IF axis_switch = "a" THEN "a" ELSE "x"
           parts == RestParts(first)
       IN  IF \A i \in 1..Len(parts) : parts[i].ok
             THEN /\ th' = [th EXCEPT ![t].pc = "u_lock",
                                      ![t].selM = first,
                                      ![t].data = th[t].data \o Concat(parts)
                                          \o << BitOr(icon, multiplier_code), units >>]
                  /\ UNCHANGED << running, disconnecting, kernelActive,
                                  disconnectCalled, call, redisc >>
             ELSE /\ disconnect(reattach, kernelActive)
                  /\ th' = [th EXCEPT ![t] = Dies(th[t])]
                  /\ call' = IF t = Main THEN [call EXCEPT !.result = "raised"] ELSE call
                  /\ redisc' = Voided
    /\ UNCHANGED << reconnecting, reattach, dev, axis_switch, icon, units,
                    multiplier_code, axes, machine_event_handler, updateLock,
                    devPresent, wire, faults, calls, evt, watch, codecVars >>

\* a variant of SendPackets that does not take updateLock: the property of
\* C19 must tell it from SendPackets
SendPacketsUnlocked(t, k) ==
    /\ th[t].pc = "u_lock"
    /\ LET first == th[t].n + 1
           last == IF th[t].n + k > 6 THEN 6 ELSE th[t].n + k
           pkts == [i \in 1..(last - first + 1) |-> Packets(th[t].data)[first + i - 1]]
           claims == watch.on /\ watch.by = Free /\ th[t].kind = "disp" /\ first = 1
           mine == watch.on /\ (watch.by = t \/ claims)
       IN  /\ wire' = IF last = 6 THEN NoWire
                      ELSE [owner |-> t,
                            pkts |-> IF first = 1 THEN pkts ELSE wire.pkts \o pkts]
           /\ call' = IF t = Main
                        THEN [call EXCEPT !.afterFatal = call.fatal /\ dev = "dev"
                                                           /\ devPresent,
                                          !.sent = (last = 6)]
                        ELSE call
           /\ watch' = IF mine /\ last = 6
                         THEN [watch EXCEPT !.by = t, !.frame = Pad(th[t].data),
                                            !.selW = th[t].selW, !.selM = th[t].selM]
                         ELSE IF claims THEN [watch EXCEPT !.by = t]
                         ELSE watch
           /\ redisc' = IF last = 6 /\ th[t].kind = "disp" /\ redisc = "pending"
                            /\ running /\ dev = "dev" /\ devPresent
                          THEN "resumed" ELSE redisc
           /\ IF last = 6
                THEN /\ updateLock' = Free
                     /\ th' = [th EXCEPT ![t] = Return(th[t])]
                ELSE /\ updateLock' = t
                     /\ th' = [th EXCEPT ![t].n = last]
    /\ UNCHANGED << running, reconnecting, disconnecting, reattach, dev, axis_switch,
                    icon, units, multiplier_code, axes, machine_event_handler,
                    devPresent, kernelActive, faults, calls, evt, disconnectCalled,
                    codecVars >>

\* updateDisplay, line 438, and sendData, lines 445-476: with updateLock
\* taken (by the step that makes the first transfer), pad the frame, cut it
\* into packets and make the next k control transfers; a failed transfer is
\* ignored.  After the sixth the lock is released and updateDisplay returns.
SendPackets(t, k) ==
    /\ th[t].pc = "u_lock"
    /\ updateLock = IF th[t].n = 0 THEN Free ELSE t
    /\ LET first == th[t].n + 1
           last == IF th[t].n + k > 6 THEN 6 ELSE th[t].n + k
           pkts == [i \in 1..(last - first + 1) |-> Packets(th[t].data)[first + i - 1]]
           claims == watch.on /\ watch.by = Free /\ th[t].kind = "disp" /\ first = 1
           mine == watch.on /\ (watch.by = t \/ claims)
       IN  /\ wire' = IF last = 6 THEN NoWire
                      ELSE [owner |-> t,
                            pkts |-> IF first = 1 THEN pkts ELSE wire.pkts \o pkts]
           /\ call' = IF t = Main
                        THEN [call EXCEPT !.afterFatal = call.fatal /\ dev = "dev"
                                                           /\ devPresent,
                                          !.sent = (last = 6)]
                        ELSE call
           /\ watch' = IF mine /\ last = 6
                         THEN [watch EXCEPT !.by = t, !.frame = Pad(th[t].data),
                                            !.selW = th[t].selW, !.selM = th[t].selM]
                         ELSE IF claims THEN [watch EXCEPT !.by = t]
                         ELSE watch
           /\ redisc' = IF last = 6 /\ th[t].kind = "disp" /\ redisc = "pending"
                            /\ running /\ dev = "dev" /\ devPresent
                          THEN "resumed" ELSE redisc
           /\ IF last = 6
                THEN /\ updateLock' = Free
                     /\ th' = [th EXCEPT ![t] = Return(th[t])]
                ELSE /\ updateLock' = t
                     /\ th' = [th EXCEPT ![t].n = last]
    /\ UNCHANGED << running, reconnecting, disconnecting, reattach, dev, axis_switch,
                    icon, units, multiplier_code, axes, machine_event_handler,
                    devPresent, kernelActive, faults, calls, evt, disconnectCalled,
                    codecVars >>

\* sendData as one step: the six transfers of a frame
SendData(t) == SendPackets(t, 6)

\* a variant of DisplayLoop that leaves the loop without writing: the
\* property of C5 must tell it from DisplayLoop
DisplayLoopLeaves(t) ==
    /\ th[t].pc = "d_loop"
    /\ th' = [th EXCEPT ![t] = Idle]
    /\ UNCHANGED << hbVars, envVars, histVars, codecVars >>

\* displayPeriodically: one turn of the loop (sleeping 1/3 s after the update)
DisplayLoop(t) ==
    /\ th[t].pc = "d_loop"
    /\ IF running
         THEN th' = [th EXCEPT ![t].pc = "u_work", ![t].stack = << "d_loop" >>]
         ELSE th' = [th EXCEPT ![t] = Idle]
    /\ UNCHANGED << hbVars, envVars, histVars, codecVars >>


(* ---------------------------- receive loop ----------------------------- *)
\* what the device (or a faulty one) may deliver to one read
Reports ==
    { << 4, 0, 0, 19, 129, 0 >>,      \* axis z, increment 0x81
      << 4, 2, 0, 24, 1, 2 >>,        \* button start, axis a
      << 4, 7, 0, 17, 127, 7 >>,      \* button zero, axis x, increment 0x7F
      << 4, 0, 9, 18, 128, 0 >>,      \* button2 go-home, axis y, increment 0x80
      << 4, 153, 0, 19, 0, 153 >>,    \* button1 code in no table
      << 4, 0, 153, 17, 0, 0 >>,      \* button2 code in no table
      << 4, 0, 0, 153, 0, 0 >>,       \* axis-switch code in no table
      << 4, 0, 0, 17, 0 >> }          \* five bytes
\* the reports of the specifications that are not about decoding
FewReports == { << 4, 0, 0, 19, 129, 0 >>, << 4, 2, 0, 24, 1, 2 >> }
OneReport == { << 4, 0, 0, 19, 129, 0 >> }

\* receiveUSBEvents, line 326 (evt holds a report only until the thread
\* that processed it is back here)
RecvLoop(t) ==
    /\ th[t].pc = "r_loop"
    /\ IF running
         THEN th' = [th EXCEPT ![t].pc = "r_read"]
         ELSE th' = [th EXCEPT ![t] = Idle]
    /\ evt' = IF evt.by = t THEN NoEvt ELSE evt
    /\ UNCHANGED << hbVars, envVars, call, watch, disconnectCalled, redisc,
                    codecVars >>

\* receiveUSBEvents, lines 330-333 and 346: a timeout, or an exception that
\* is no USBError: read again
RecvTimeout(t) ==
    /\ th[t].pc = "r_read"
    /\ th' = [th EXCEPT ![t].pc = "r_loop"]
    /\ UNCHANGED << hbVars, envVars, histVars, codecVars >>

\* newUSBEvent on the bytes of one read, with the try of lines 348-352
\* around it: the assert and the axis lookup are outside newUSBEvent's own
\* try, the button lookups and the handler's call inside it
RecvReport(t, reports) ==
    /\ th[t].pc = "r_read"
    /\ devPresent /\ dev = "dev"
    /\ \E data \in reports, raises \in BOOLEAN :
         IF Len(data) # 6 \/ data[4] \notin Codes(axis_select_switch)
           THEN /\ ~raises
                /\ evt' = [NoEvt EXCEPT !.by = t, !.report = data, !.fatal = TRUE]
                /\ disconnect(reattach, kernelActive)
                /\ th' = [th EXCEPT ![t] = Dies(th[t])]
                /\ redisc' = Voided
                /\ UNCHANGED axis_switch
           ELSE /\ axis_switch' = NameOf(axis_select_switch, data[4])
                /\ IF machine_event_handler = "None"
                      \/ data[2] \notin Codes(button_names)
                      \/ data[3] \notin Codes(button_names)
                     THEN /\ ~raises
                          /\ evt' = [NoEvt EXCEPT !.by = t, !.report = data]
                     ELSE evt' = [by |-> t, report |-> data,
                                  fatal |-> FALSE, invoked |-> TRUE, raised |-> raises,
                                  event |-> [button |-> NameOf(button_names, data[2]),
                                             button2 |-> NameOf(button_names, data[3]),
                                             axis |-> axis_switch',
                                             increment |-> sign_extend(data[5])]]
                /\ th' = [th EXCEPT ![t].pc = "r_loop"]
                /\ UNCHANGED << running, disconnecting, kernelActive, disconnectCalled,
                                redisc >>
    /\ UNCHANGED << reconnecting, reattach, dev, icon, units, multiplier_code, axes,
                    machine_event_handler, updateLock, devPresent, wire, faults,
                    calls, call, watch, codecVars >>

\* receiveUSBEvents, lines 334-339: ENODEV; sleep 2 s, then connect_hb04 in
\* place, forceDisplayUpdate, and back to the loop
RecvNoDevice(t) ==
    /\ th[t].pc = "r_read"
    /\ ~devPresent
    /\ faults < MaxFaults
    /\ faults' = faults + 1
    /\ th' = [th EXCEPT ![t].pc = "c_start", ![t].stack = << "u_work", "r_loop" >>]
    /\ UNCHANGED << hbVars, devPresent, kernelActive, wire, calls, histVars,
                    codecVars >>

\* receiveUSBEvents, lines 340-343: EBUSY (sleep 1 s) or any other USBError
RecvError(t) ==
    /\ th[t].pc = "r_read"
    /\ faults < MaxFaults
    /\ faults' = faults + 1
    /\ th' = [th EXCEPT ![t].pc = "r_spawn"]
    /\ redisc' = Voided
    /\ UNCHANGED << hbVars, devPresent, kernelActive, wire, calls, evt, call,
                    watch, disconnectCalled, codecVars >>

\* receiveUSBEvents, lines 344-345: start the reconnect thread and leave
RecvReconnect(t) ==
    /\ th[t].pc = "r_spawn"
    /\ FreeSlots # {}
    /\ th' = [th EXCEPT ![t] = Idle,
                        ![Lowest(FreeSlots)] = NewThread("reconn", "rc_start")]
    /\ UNCHANGED << hbVars, envVars, histVars, codecVars >>

\* a variant of Reconnect that leaves the running flag set: the property of
\* C20 must tell it from Reconnect
ReconnectKeepsRunning(t) ==
    /\ th[t].pc = "rc_start"
    /\ reconnecting' = TRUE
    /\ th' = [th EXCEPT ![t].pc = "rc_sleep"]
    /\ UNCHANGED << running, disconnecting, reattach, dev, axis_switch, icon, units,
                    multiplier_code, axes, machine_event_handler, updateLock,
                    envVars, histVars, codecVars >>

\* reconnect, lines 317-319
Reconnect(t) ==
    /\ th[t].pc = "rc_start"
    /\ reconnecting' = TRUE
    /\ running' = FALSE
    /\ th' = [th EXCEPT ![t].pc = "rc_sleep"]
    /\ UNCHANGED << disconnecting, reattach, dev, axis_switch, icon, units,
                    multiplier_code, axes, machine_event_handler, updateLock,
                    envVars, histVars, codecVars >>

\* reconnect, lines 320-321: after the 500 ms, on to connect_hb04
ReconnectWake(t) ==
    /\ th[t].pc = "rc_sleep"
    /\ reconnecting' = FALSE
    /\ th' = [th EXCEPT ![t].pc = "c_start"]
    /\ UNCHANGED << running, disconnecting, reattach, dev, axis_switch, icon, units,
                    multiplier_code, axes, machine_event_handler, updateLock,
                    envVars, histVars, codecVars >>


(* ------------------------------- facade -------------------------------- *)
\* the arguments the caller passes to axis_value: wc and mc may each be None
Arg(name, setW, w, setM, m) ==
    [name |-> name, setW |-> setW, w |-> w, setM |-> setM, m |-> m]
AxisArgs ==
    { Arg("y", TRUE, 12345, FALSE, 0),
      Arg("a", TRUE, -5000, TRUE, 20000),
      Arg("feed", FALSE, 0, TRUE, 100),
      Arg("feed", TRUE, 40000, FALSE, 0),
      Arg("feed-actual", TRUE, 7, FALSE, 0),
      Arg("spindle-actual", TRUE, 40000, TRUE, 9),
      Arg("bogus", TRUE, 1, FALSE, 0) }
AttributeArgs == { "inch", "mm", "go-zero", "10", "bogus" }

\* axis_value, lines 488-498: the try block.  The SystemExit that fatal
\* raises for an unknown name is caught by the bare except of line 497, and
\* the call goes on to forceDisplayUpdate either way.
AxisValue ==
    /\ th[Main].pc = "m_idle"
    /\ calls < MaxCalls
    /\ calls' = calls + 1
    /\ \E a \in AxisArgs :
         /\ IF a.name \in axis_list
              THEN /\ axes' = [axes EXCEPT
                         ![a.name].work_coordinate = IF a.setW THEN a.w ELSE @,
                         ![a.name].machine_coordinate = IF a.setM THEN a.m ELSE @]
                   /\ UNCHANGED << running, disconnecting, kernelActive,
                                   disconnectCalled, redisc >>
              ELSE /\ disconnect(reattach, kernelActive)
                   /\ redisc' = Voided
                   /\ UNCHANGED axes
         /\ call' = [NoCall EXCEPT !.op = "axis_value", !.name = a.name,
                                   !.setW = a.setW, !.w = a.w, !.setM = a.setM,
                                   !.m = a.m, !.fatal = (a.name \notin axis_list),
                                   !.result = "pending"]
    /\ watch' = NoWatch
    /\ th' = [th EXCEPT ![Main].pc = "u_work", ![Main].stack = << "m_ret" >>]
    /\ UNCHANGED << reconnecting, reattach, dev, axis_switch, icon, units,
                    multiplier_code, machine_event_handler, updateLock, devPresent,
                    wire, faults, evt, codecVars >>

\* display_attributes
display_attributes ==
    Keys(units_values) \cup Keys(icon_values) \cup Keys(multiplier_values)

\* set_display_attribute, lines 510-521.  The warning of line 511 formats
\* the name `value`, which nothing defines: building it raises NameError out
\* of the call.
SetDisplayAttribute ==
    /\ th[Main].pc = "m_idle"
    /\ calls < MaxCalls
    /\ calls' = calls + 1
    /\ \E attribute \in AttributeArgs :
         /\ call' = [NoCall EXCEPT !.op = "set_display_attribute", !.name = attribute,
                        !.result = IF attribute \in display_attributes
                                     THEN "pending" ELSE "raised"]
         /\ IF attribute \notin display_attributes
              THEN /\ th' = [th EXCEPT ![Main] = Dies(th[Main])]
                   /\ UNCHANGED << units, icon, multiplier_code >>
              ELSE /\ th' = [th EXCEPT ![Main].pc = "u_work",
                                       ![Main].stack = << "m_ret" >>]
                   /\ IF attribute \in Keys(units_values)
                        THEN /\ units' = Lookup(units_values, attribute)
                             /\ UNCHANGED << icon, multiplier_code >>
                        ELSE IF attribute \in Keys(icon_values)
                          THEN /\ icon' = Lookup(icon_values, attribute)
                               /\ UNCHANGED << units, multiplier_code >>
                          ELSE /\ multiplier_code' = Lookup(multiplier_values, attribute)
                               /\ UNCHANGED << units, icon >>
    /\ UNCHANGED << running, reconnecting, disconnecting, reattach, dev, axis_switch,
                    axes, machine_event_handler, updateLock, devPresent,
                    kernelActive, wire, faults, evt, watch, disconnectCalled, redisc,
                    codecVars >>

\* set_event_handler
SetEventHandler ==
    /\ th[Main].pc = "m_idle"
    /\ calls < MaxCalls
    /\ calls' = calls + 1
    /\ \E handler \in { "None", "handler" } :
         /\ handler # machine_event_handler
         /\ machine_event_handler' = handler
    /\ call' = [NoCall EXCEPT !.op = "set_event_handler", !.result = "returned"]
    /\ UNCHANGED << running, reconnecting, disconnecting, reattach, dev, axis_switch,
                    icon, units, multiplier_code, axes, updateLock, th, devPresent,
                    kernelActive, wire, faults, evt, watch, disconnectCalled, redisc,
                    codecVars >>

\* the caller calls disconnect()
CallDisconnect ==
    /\ th[Main].pc = "m_idle"
    /\ calls < MaxCalls
    /\ calls' = calls + 1
    /\ disconnect(reattach, kernelActive)
    /\ redisc' = Voided
    /\ call' = [NoCall EXCEPT !.op = "disconnect", !.result = "returned"]
    /\ UNCHANGED << reconnecting, reattach, dev, axis_switch, icon, units,
                    multiplier_code, axes, machine_event_handler, updateLock, th,
                    devPresent, wire, faults, evt, watch, codecVars >>

\* axis_value / set_display_attribute return to the caller
MainReturn ==
    /\ th[Main].pc = "m_ret"
    /\ th' = [th EXCEPT ![Main].pc = "m_idle"]
    /\ call' = [call EXCEPT !.result = "returned"]
    /\ watch' = IF call.op = "axis_value" /\ ~call.fatal
                  THEN [NoWatch EXCEPT !.on = TRUE, !.name = call.name]
                  ELSE watch
    /\ UNCHANGED << hbVars, envVars, evt, disconnectCalled, redisc, codecVars >>

\* the caller's script ends; the interpreter then joins the threads and
\* runs the atexit hook of line 167, disconnect
MainExit ==
    /\ th[Main].pc = "m_idle"
    /\ th' = [th EXCEPT ![Main].pc = "m_exited"]
    /\ UNCHANGED << hbVars, envVars, histVars, codecVars >>

AtExit ==
    /\ th[Main].pc = "m_exited"
    /\ FreeSlots = Slots
    /\ disconnect(reattach, kernelActive)
    /\ th' = [th EXCEPT ![Main].pc = "m_final"]
    /\ UNCHANGED << reconnecting, reattach, dev, axis_switch, icon, units,
                    multiplier_code, axes, machine_event_handler, updateLock,
                    devPresent, wire, faults, calls, evt, call, watch, redisc,
                    codecVars >>

(* ----------------------------- environment ----------------------------- *)
\* the pendant is plugged in: the host's default driver takes it
Plug ==
    /\ ~devPresent
    /\ devPresent' = TRUE
    /\ kernelActive' = TRUE
    /\ UNCHANGED << hbVars, th, wire, faults, calls, histVars, codecVars >>

\* the pendant is pulled
Unplug ==
    /\ devPresent
    /\ faults < MaxFaults
    /\ devPresent' = FALSE
    /\ kernelActive' = FALSE
    /\ redisc' = Voided
    /\ UNCHANGED << hbVars, th, wire, faults, calls, evt, call, watch,
                    disconnectCalled, codecVars >>

(* --------------------------- specifications ---------------------------- *)
\* connecting, listening and displaying, with the device delivering `reports`
ListenStep(t, reports) ==
    \/ ConnectStart(t) \/ ConnectPoll(t) \/ ConnectClaim(t) \/ StartListening(t)
    \/ UpdateWork(t) \/ UpdateRest(t) \/ SendData(t)
    \/ DisplayLoop(t)
    \/ RecvLoop(t) \/ RecvTimeout(t) \/ RecvReport(t, reports)

\* transport errors and the reconnect thread
FaultStep(t) ==
    \/ RecvNoDevice(t) \/ RecvError(t) \/ RecvReconnect(t)
    \/ Reconnect(t) \/ ReconnectWake(t)

\* Spec: the connection lifecycle under transport faults and disconnect()
Next ==
    \/ \E t \in Threads : ListenStep(t, OneReport) \/ FaultStep(t)
    \/ CallDisconnect \/ MainExit \/ AtExit
    \/ Plug
    \/ Unplug

Spec == Init /\ [][Next]_vars

\* SpecRecv: the receive loop on every kind of report, with a handler
NextRecv ==
    \/ \E t \in Threads : ListenStep(t, Reports)
    \/ SetEventHandler
    \/ Plug

SpecRecv == Init /\ [][NextRecv]_vars

\* SpecAxis: the caller's axis_value calls against the display loop and the
\* receive loop
NextAxis ==
    \/ \E t \in Threads : ListenStep(t, FewReports)
    \/ AxisValue \/ MainReturn
    \/ Plug

SpecAxis == Init /\ [][NextAxis]_vars

\* SpecAttr: the caller's set_display_attribute calls, likewise
NextAttr ==
    \/ \E t \in Threads : ListenStep(t, FewReports)
    \/ SetDisplayAttribute \/ MainReturn
    \/ Plug

SpecAttr == Init /\ [][NextAttr]_vars

\* SpecWire: the write path packet by packet: the connect thread's refresh,
\* the display loop and the caller's axis_value, each making one control
\* transfer per step
WireStep(t) ==
    \/ ConnectStart(t) \/ ConnectPoll(t) \/ ConnectClaim(t) \/ StartListening(t)
    \/ UpdateWork(t) \/ UpdateRest(t) \/ SendPackets(t, 1)
    \/ DisplayLoop(t)
    \/ RecvLoop(t) \/ RecvTimeout(t)

NextWire ==
    \/ \E t \in Threads : WireStep(t)
    \/ AxisValue \/ MainReturn
    \/ Plug

SpecWire == Init /\ [][NextWire]_vars

\* SpecFrame: frames assembled while the caller sets axis values or display
\* attributes and the receive loop moves the switch
NextFrame ==
    \/ \E t \in Threads : ListenStep(t, FewReports)
    \/ AxisValue \/ SetDisplayAttribute \/ MainReturn
    \/ Plug

SpecFrame == Init /\ [][NextFrame]_vars

\* SpecNoDev: the no-device scenario: the device is pulled and plugged in
\* again, the caller may disconnect.  Every thread that can take a step
\* eventually takes one.
NoDevStep(t) == ListenStep(t, OneReport) \/ RecvNoDevice(t)

NextNoDev ==
    \/ \E t \in Threads : NoDevStep(t)
    \/ CallDisconnect
    \/ Plug
    \/ Unplug

SpecNoDev ==
    Init /\ [][NextNoDev]_vars /\ \A t \in Threads : WF_vars(NoDevStep(t))



(* ------------------------ codec specification -------------------------- *)
\* inputs of encode_float, in ten-thousandths: in range, and beyond 9999.9999
FracSamples == { 0, 1, 9999 } \cup { 2500 * i : i \in 1..NSamples }
WholeSamples == { 0, 1, 255, 256, 9999 } \cup { 1111 * i : i \in 1..NSamples }
BeyondSamples == { 10000, 32768, 65535, 65536 } \cup { 70000 + i : i \in 1..NSamples }
FloatInputs ==
    { sg * (w * 10000 + f) : sg \in { -1, 1 }, w \in WholeSamples \cup BeyondSamples,
                             f \in FracSamples }
\* inputs of encode_s16
IntInputs ==
    { -40000, -1, 0, 1, 255, 256, 32767, 32768, 40000, 65535, 65536, 100000 }
        \cup { 1000 * i : i \in 1..NSamples }
\* 42-byte inputs of sendData
FrameInputs ==
    { [i \in 1..42 |-> (a * i + b) % 256] : a \in 0..NSamples, b \in { 0, 6, 255 } }

CodecInit ==
    /\ SessionInit
    /\ cout = Bytes(<< >>)
    /\ cwire = << >>
    /\ \/ cop = "call encode_float" /\ cin \in FloatInputs /\ cdata = << >>
       \/ cop = "call encode_s16" /\ cin \in IntInputs /\ cdata = << >>
       \/ cop = "call sendData" /\ cin = 0 /\ cdata \in FrameInputs

\* Axis.display on a positional axis
CodecEncodeFloat ==
    /\ cop = "call encode_float"
    /\ cop' = "encode_float"
    /\ cout' = display(FALSE, cin)
    /\ UNCHANGED << hbVars, th, envVars, histVars, cin, cdata, cwire >>

\* Axis.display on a rate axis
CodecEncodeS16 ==
    /\ cop = "call encode_s16"
    /\ cop' = "encode_s16"
    /\ cout' = display(TRUE, cin)
    /\ UNCHANGED << hbVars, th, envVars, histVars, cin, cdata, cwire >>

\* sendData, lines 462-476: the control transfers, one packet each, in the
\* order of the list
CodecTransfer ==
    /\ cop \in { "call sendData", "sendData" }
    /\ cwire' = Append(cwire, Packets(cdata)[Len(cwire) + 1])
    /\ cop' = IF Len(cwire') = 6 THEN "sent" ELSE "sendData"
    /\ UNCHANGED << hbVars, th, envVars, histVars, cin, cdata, cout >>

NextCodec == CodecEncodeFloat \/ CodecEncodeS16 \/ CodecTransfer

SpecCodec == CodecInit /\ [][NextCodec]_vars

(* ------------------------------ properties ----------------------------- *)
\* the bytes of `frame` that show axis `name`, against its stored values;
\* selW and selM are the axes the frame's first work and machine slots hold
ShowsAxis(frame, name, selW, selM) ==
    LET w == wc_display(name)
        m == mc_display(name)
    IN  CASE name \in { "x", "a" } ->
               /\ selW = name => SubSeq(frame, 4, 7) = w.bytes
               /\ selM = name => SubSeq(frame, 16, 19) = m.bytes
          [] name = "y" ->
               SubSeq(frame, 8, 11) = w.bytes /\ SubSeq(frame, 20, 23) = m.bytes
          [] name = "z" ->
               SubSeq(frame, 12, 15) = w.bytes /\ SubSeq(frame, 24, 27) = m.bytes
          [] name = "feed" ->
               /\ w.ok /\ SubSeq(frame, 28, 29) = w.bytes
               /\ m.ok /\ SubSeq(frame, 32, 33) = m.bytes
          [] name = "spindle" ->
               /\ w.ok /\ SubSeq(frame, 30, 31) = w.bytes
               /\ m.ok /\ SubSeq(frame, 34, 35) = m.bytes
          [] OTHER -> TRUE

\* C1: axis_value with a name that is not one of the eight axes takes the
\* fatal path and never silently succeeds: the fatal path's disconnect has
\* cleared the running flag, the call does not return normally to its
\* caller, and the call writes no frame after the failure.
C1_UnknownAxisIsFatal ==
    (call.op = "axis_value" /\ call.name \notin axis_list) =>
        /\ disconnectCalled
        /\ call.result # "returned"
        /\ ~call.afterFatal

\* a report that fails to decode: not 6 bytes, or a button or axis-switch
\* code that its lookup table does not hold
DecodeFails(report) ==
    \/ Len(report) # 6
    \/ report[2] \notin Codes(button_names)
    \/ report[3] \notin Codes(button_names)
    \/ report[4] \notin Codes(axis_select_switch)

\* C2: a report that fails to decode is dropped: the handler is not invoked
\* for it, the failure is not propagated (no fatal path), and the receive
\* loop that read it stays in Listening, the running flag still set, on its
\* way to the next read.
C2_UndecodableReportIsDropped ==
    (evt.by # Free /\ DecodeFails(evt.report)) =>
        /\ ~evt.invoked
        /\ ~evt.fatal
        /\ running
        /\ th[evt.by].pc = "r_loop"

\* C3: when the handler raises on a decoded report the fault is fatal: the
\* running flag is cleared, the receive loop that called it has stopped,
\* and no reconnect is under way.
C3_HandlerFaultIsFatal ==
    evt.raised =>
        /\ ~running
        /\ ~reconnecting
        /\ th[evt.by].kind = "none"

\* C4: once disconnect() has been called the running flag is clear and
\* stays clear: no connect attempt in progress or started afterwards sets
\* it again.
C4_DisconnectIsFinal == disconnectCalled => ~running

\* C5: after a no-device failure of a read, once a discovery poll of that
\* receive loop has found the device again, then (unless the endpoint is
\* unusable, the device goes again, or disconnect() or the fatal path runs)
\* is_running() is true again and a display loop has written a frame after
\* the rediscovery.
C5_RediscoveryResumes ==
    (redisc = "found") ~> ((redisc = "resumed" /\ isRunning) \/ redisc = "void")

\* C5, its case: a display loop wrote a frame after the rediscovery, the
\* session running
C5_Resumed == redisc = "resumed" /\ isRunning /\ faults > 0

\* C6: axis_value on a known axis shows the new value synchronously: the
\* frame the call assembles encodes the stored value, the call has handed
\* all 6 packets of it to the transport when it returns, and the next frame
\* a display loop writes after the return encodes the stored value too.
C6_MutationVisible ==
    /\ (call.op = "axis_value" /\ call.name \in axis_list /\ th[Main].pc = "u_lock") =>
           ShowsAxis(Pad(th[Main].data), call.name, th[Main].selW, th[Main].selM)
    /\ (call.op = "axis_value" /\ call.name \in axis_list /\ call.result = "returned") =>
           call.sent
    /\ (watch.on /\ watch.frame # << >>) =>
           ShowsAxis(watch.frame, watch.name, watch.selW, watch.selM)

\* C7: sendData on a 42-byte input writes packets of exactly 8 bytes, each
\* led by 0x06, in the order of the frame, exactly 6 of them when it is
\* done, and bytes 1..7 of the packets, concatenated in order, are the
\* input.
C7_SendDataPackets ==
    (cop \in { "sendData", "sent" }) =>
        /\ Len(cwire) <= 6
        /\ \A p \in 1..Len(cwire) :
             /\ Len(cwire[p]) = 8
             /\ cwire[p][1] = 6
             /\ \A i \in 1..7 : cwire[p][i + 1] = cdata[7 * (p - 1) + i]
        /\ cop = "sent" =>
             /\ Len(cwire) = 6
             /\ [j \in 1..42 |-> cwire[((j - 1) \div 7) + 1][((j - 1) % 7) + 2]] = cdata

\* C7, its case: a whole frame whose packets differ has been written
C7_FrameSent == cop = "sent" /\ Len(cwire) = 6 /\ cwire[1] # cwire[2]

\* C8: encode_s16 on an integer axis never fails: for every input it
\* yields the 2-byte little-endian field of the input clamped to
\* [0, 65535].
C8_EncodeS16Total ==
    (cop = "encode_s16") =>
        /\ cout.ok
        /\ Len(cout.bytes) = 2
        /\ cout.bytes = LE16(IF cin < 0 THEN 0 ELSE IF cin > 65535 THEN 65535 ELSE cin)

\* C9: encode_float beyond 9999.9999 saturates: the bytes are those of the
\* boundary value (integer field 9999, fractional field 9999) with the sign
\* of the input.
C9_EncodeFloatSaturates ==
    (cop = "encode_float" /\ Abs(cin) > 99999999) =>
        /\ cout.ok
        /\ cout.bytes = LE16(9999) \o LE16(IF cin < 0 THEN 9999 + 32768 ELSE 9999)

\* C10: encode_float within 9999.9999 yields 4 bytes that decode (integer
\* field, fractional field without bit 15, negated when bit 15 is set) to
\* the input within 0.0001; the fractional magnitude is below 10000, and
\* bit 15 of the fractional field is set exactly when the input is negative.
C10_EncodeFloatRoundTrip ==
    (cop = "encode_float" /\ Abs(cin) <= 99999999) =>
        /\ cout.ok
        /\ Len(cout.bytes) = 4
        /\ \A i \in 1..4 : cout.bytes[i] \in 0..255
        /\ LET int_field == cout.bytes[1] + 256 * cout.bytes[2]
               fract_field == cout.bytes[3] + 256 * cout.bytes[4]
               negative == fract_field >= 32768
               magnitude == fract_field % 32768
               decoded == (IF negative THEN -1 ELSE 1) * (int_field * 10000 + magnitude)
           IN  /\ Abs(decoded - cin) <= 1
               /\ magnitude < 10000
               /\ negative <=> (cin < 0)

\* C10, its case: a negative value with both fields in use has been encoded
C10_NegativeEncoded ==
    /\ cop = "encode_float"
    /\ cin < 0
    /\ Abs(cin) <= 99999999
    /\ Abs(cin) >= 10000
    /\ Abs(cin) % 10000 # 0

\* C11: every frame takes its first work-coordinate slot (payload bytes
\* 3..6) and its first machine-coordinate slot (bytes 15..18) from axis a
\* when the last-known switch position is 'a' as the slot is assembled, and
\* from axis x for every other position; the y and z slots hold the y and z
\* coordinates whatever the switch says.
C11_SwitchSelectsFirstSlots ==
    [][\A t \in Threads :
         LET sel == IF axis_switch = "a" THEN "a" ELSE "x"
             frame == th'[t].data
         IN  /\ (th[t].pc = "u_work" /\ th'[t].pc = "u_rest") =>
                   /\ SubSeq(frame, 4, 7) = encode_float(axes[sel].work_coordinate)
                   /\ SubSeq(frame, 8, 11) = encode_float(axes["y"].work_coordinate)
                   /\ SubSeq(frame, 12, 15) = encode_float(axes["z"].work_coordinate)
             /\ (th[t].pc = "u_rest" /\ th'[t].pc = "u_lock") =>
                   /\ SubSeq(frame, 1, 15) = th[t].data
                   /\ SubSeq(frame, 16, 19) = encode_float(axes[sel].machine_coordinate)
                   /\ SubSeq(frame, 20, 23) = encode_float(axes["y"].machine_coordinate)
                   /\ SubSeq(frame, 24, 27) = encode_float(axes["z"].machine_coordinate)
      ]_vars

\* C11, its case: a frame assembled with the switch on 'a', axis a holding
\* coordinates that differ from axis x's
C11_FrameOfAxisA ==
    \E t \in Threads :
        /\ th[t].pc = "u_lock"
        /\ th[t].selW = "a" /\ th[t].selM = "a"
        /\ axis_switch = "a"
        /\ axes["a"].work_coordinate # axes["x"].work_coordinate
        /\ axes["a"].machine_coordinate # axes["x"].machine_coordinate
        /\ SubSeq(th[t].data, 4, 7) = encode_float(axes["a"].work_coordinate)
        /\ SubSeq(th[t].data, 16, 19) = encode_float(axes["a"].machine_coordinate)

\* the code a table gives a name
CodeOf(table, name) == CHOOSE c \in Codes(table) : << name, c >> \in table

\* C12: set_display_attribute with a name of the units, icon or multiplier
\* table gives exactly the matching field that name's code (units 0x80 for
\* 'inch', 0x00 for 'mm') and leaves the other two alone, and every frame
\* assembled afterwards carries it: the units byte is the units code and the
\* status byte is the icon code OR the multiplier code.
C12_AttributeShown ==
    [][/\ (call' # call /\ call'.op = "set_display_attribute"
              /\ call'.name \in display_attributes) =>
            LET n == call'.name
            IN  /\ units' = IF n \in Keys(units_values)
                              THEN CodeOf(units_values, n) ELSE units
                /\ icon' = IF n \in Keys(icon_values)
                             THEN CodeOf(icon_values, n) ELSE icon
                /\ multiplier_code' = IF n \in Keys(multiplier_values)
                                        THEN CodeOf(multiplier_values, n)
                                        ELSE multiplier_code
                /\ n = "inch" => units' = 128
                /\ n = "mm" => units' = 0
       /\ \A t \in Threads :
            (th[t].pc = "u_rest" /\ th'[t].pc = "u_lock") =>
                LET frame == th'[t].data
                    n == call.name
                    set == call.op = "set_display_attribute" /\ n \in display_attributes
                IN  /\ Len(frame) = 37
                    /\ frame[36] = BitOr(icon, multiplier_code)
                    /\ frame[37] = units
                    /\ (set /\ n \in Keys(units_values)) =>
                           frame[37] = CodeOf(units_values, n)
                    /\ (set /\ n \in Keys(icon_values)) =>
                           frame[36] = BitOr(CodeOf(icon_values, n), multiplier_code)
                    /\ (set /\ n \in Keys(multiplier_values)) =>
                           frame[36] = BitOr(icon, CodeOf(multiplier_values, n))
      ]_vars

\* C12, its case: after set_display_attribute('inch') has returned, a
\* display loop has assembled a frame, whose units byte is 0x80
C12_InchFrame ==
    \E t \in Slots :
        /\ th[t].kind = "disp" /\ th[t].pc = "u_lock"
        /\ call.op = "set_display_attribute" /\ call.name = "inch"
        /\ call.result = "returned"
        /\ th[t].data[37] = 128

\* C13: set_display_attribute with a name of none of the three tables is a
\* no-op: it returns normally to the caller, who goes on, with no refresh
\* forced (the call never enters updateDisplay).
C13_UnknownAttributeIsNoOp ==
    (call.op = "set_display_attribute" /\ call.name \notin display_attributes) =>
        /\ call.result = "returned"
        /\ th[Main].pc = "m_idle"

\* C14: axis_value on a known axis, from the call to its return, changes
\* only the provided field(s) of that one axis, storing each value as given;
\* the field not provided, every other axis, icon, units, multiplier code,
\* the last-known switch position and the running and reconnecting flags
\* are as they were.
C14_AxisValueFrame ==
    [][(th'[Main] # th[Main] /\ call'.op = "axis_value" /\ call'.name \in axis_list) =>
           /\ running' = running
           /\ reconnecting' = reconnecting
           /\ icon' = icon /\ units' = units /\ multiplier_code' = multiplier_code
           /\ axis_switch' = axis_switch
           /\ \A a \in axis_list :
                axes'[a] = IF th[Main].pc = "m_idle" /\ a = call'.name
                             THEN [work_coordinate |->
                                       IF call'.setW THEN call'.w
                                       ELSE axes[a].work_coordinate,
                                   machine_coordinate |->
                                       IF call'.setM THEN call'.m
                                       ELSE axes[a].machine_coordinate]
                             ELSE axes[a]
      ]_vars

\* the name a table gives a code
NameFor(table, code) == CHOOSE n \in Keys(table) : << n, code >> \in table

\* C15: for a 6-byte report whose two button codes and axis-switch code
\* are in their tables, the registered handler is invoked with the event
\* that names those codes (switch code 0x13 is axis 'z') and whose
\* increment is byte 4 as two's complement: b up to 127, b - 256 above
\* (0x81 is -127), always within -128..127.
C15_DecodedEvent ==
    [][(evt' # evt /\ evt'.by # Free /\ machine_event_handler # "None"
           /\ ~DecodeFails(evt'.report)) =>
           LET r == evt'.report
               e == evt'.event
           IN  /\ evt'.invoked
               /\ ~evt'.fatal
               /\ e.button = NameFor(button_names, r[2])
               /\ e.button2 = NameFor(button_names, r[3])
               /\ e.axis = NameFor(axis_select_switch, r[4])
               /\ e.increment = IF r[5] <= 127 THEN r[5] ELSE r[5] - 256
               /\ e.increment \in -128..127
               /\ r[4] = 19 => e.axis = "z"
               /\ r[5] = 129 => e.increment = -127
      ]_vars

\* C15, its case: the handler has been invoked for a report of axis z
\* with increment byte 0x81
C15_ZMinus127 ==
    /\ evt.invoked
    /\ evt.report[4] = 19 /\ evt.report[5] = 129
    /\ evt.event.axis = "z" /\ evt.event.increment = -127

\* C16: in every state at most one receive-loop thread and at most one
\* display-loop thread of the session are alive.
C16_OnePairOfLoops ==
    /\ Cardinality({ t \in Slots : th[t].kind = "recv" }) <= 1
    /\ Cardinality({ t \in Slots : th[t].kind = "disp" }) <= 1

\* C17: by the time reconnect re-enters connect_hb04, and until that connect
\* starts the new loops, the receive loop and the display loop of the
\* connection it replaces have exited.
C17_OldLoopsGone ==
    (\E t \in Slots : /\ th[t].kind = "reconn"
                      /\ th[t].pc \in { "c_start", "c_poll", "c_claim", "c_listen" }) =>
        \A s \in Slots : th[s].kind \notin { "recv", "disp" }

\* C18: frames reach the transport in the order of the states they were
\* assembled from: once the frame that axis_value assembled after its
\* update has been transmitted, no thread transmits a frame assembled from
\* the state before the update.
C18_FramesInOrder ==
    [][\A t \in Slots :
         (/\ th[t].pc = "u_lock" /\ th'[t].pc # "u_lock"
          /\ call.op = "axis_value" /\ call.name \in axis_list /\ call.sent) =>
             ShowsAxis(Pad(th[t].data), call.name, th[t].selW, th[t].selM)
      ]_vars

\* C19: the write path is mutually exclusive: at most one thread is
\* between the first and the sixth packet of a frame, it holds updateLock,
\* and the packets written since the first are exactly the leading packets
\* of its own frame, in order, none of another frame among them; a frame is
\* whole (all 37 bytes assembled, 42 once padded) before its first packet
\* is written.
C19_WriteExclusive ==
    /\ Cardinality({ t \in Threads : th[t].pc = "u_lock" /\ th[t].n > 0 }) <= 1
    /\ \A t \in Threads :
         th[t].pc = "u_lock" =>
             /\ Len(th[t].data) = 37
             /\ Len(Pad(th[t].data)) = 42
             /\ th[t].n > 0 =>
                  /\ updateLock = t
                  /\ wire.owner = t
                  /\ Len(wire.pkts) = th[t].n
                  /\ \A i \in 1..th[t].n :
                       wire.pkts[i] =
                           <<6>> \o SubSeq(Pad(th[t].data), 7 * (i - 1) + 1, 7 * i)
    /\ wire # NoWire => th[wire.owner].pc = "u_lock" /\ th[wire.owner].n = Len(wire.pkts)

\* C19, its case: a display loop is five packets into its frame while the
\* caller's axis_value holds an assembled frame and waits for the lock
C19_CallerWaits ==
    \E t \in Slots :
        /\ th[t].kind = "disp" /\ th[t].pc = "u_lock" /\ th[t].n = 5
        /\ th[Main].pc = "u_lock" /\ th[Main].n = 0
        /\ Len(wire.pkts) = 5

\* the reconnect threads alive in a thread table
ReconnectThreads(table) == { s \in Slots : table[s].kind = "reconn" }

\* C20: what the receive loop does with a failed read.  A timeout changes
\* nothing of the session and the loop reads again.  A busy or other
\* transport error ends that loop and starts exactly one reconnect, which
\* sets reconnecting and clears running.  A no-device error keeps the loop's
\* thread, which rediscovers in place, with no reconnect started.  None of
\* them takes the fatal path.
C20_ErrorDispatch ==
    [][\A t \in Slots :
         /\ (th[t].pc = "r_read" /\ th'[t].pc = "r_loop" /\ evt' = evt) =>
                /\ UNCHANGED hbVars
                /\ th'[t].kind = "recv"
         /\ (th[t].pc = "r_read" /\ th'[t].pc = "r_spawn") =>
                /\ running' = running /\ reconnecting' = reconnecting
         /\ (th[t].pc = "r_spawn" /\ th'[t].pc # "r_spawn") =>
                /\ th'[t].kind = "none"
                /\ \E s \in Slots \ ReconnectThreads(th) :
                     /\ ReconnectThreads(th') = ReconnectThreads(th) \cup {s}
                     /\ th'[s].pc = "rc_start"
         /\ (th[t].pc = "rc_start" /\ th'[t].pc # "rc_start") =>
                /\ reconnecting' /\ ~running'
         /\ (th[t].pc = "r_read" /\ th'[t].pc = "c_start") =>
                /\ th'[t].kind = "recv"
                /\ ReconnectThreads(th') = ReconnectThreads(th)
                /\ running' = running /\ reconnecting' = reconnecting
         /\ (th[t].pc \in { "r_read", "r_spawn", "rc_start" } /\ th'[t] # th[t]
                /\ evt' = evt) =>
                /\ disconnectCalled' = disconnectCalled
                /\ disconnecting' = disconnecting
      ]_vars

\* C20, its case: after a busy or other transport error the session is in
\* Reconnecting, the failing loop gone
C20_Reconnecting ==
    /\ reconnecting /\ ~running
    /\ faults > 0
    /\ \E t \in Slots : th[t].kind = "reconn" /\ th[t].pc = "rc_sleep"
    /\ \A t \in Slots : th[t].kind # "recv"

\* the layout of a frame, from the stored values ax of the axes: the header
\* and the three work-coordinate fields, `first` the axis of the first one
WorkFields(ax, first) ==
    << 254, 253, 12 >>
        \o encode_float(ax[first].work_coordinate)
        \o encode_float(ax["y"].work_coordinate)
        \o encode_float(ax["z"].work_coordinate)

\* the three machine-coordinate fields, the four rate fields, the status
\* byte and the units byte
RestFields(ax, first, ic, mu, un) ==
    encode_float(ax[first].machine_coordinate)
        \o encode_float(ax["y"].machine_coordinate)
        \o encode_float(ax["z"].machine_coordinate)
        \o encode_s16(ax["feed"].work_coordinate).bytes
        \o encode_s16(ax["spindle"].work_coordinate).bytes
        \o encode_s16(ax["feed"].machine_coordinate).bytes
        \o encode_s16(ax["spindle"].machine_coordinate).bytes
        \o << BitOr(ic, mu), un >>

\* every frame a thread assembles is 42 bytes: the header, six 4-byte
\* fields, four 2-byte fields, the status byte, the units byte, and then
\* `reserved` bytes of zero
FrameLayout(reserved) ==
    \A t \in Threads :
        LET first == IF axis_switch = "a" THEN "a" ELSE "x"
        IN  /\ (th[t].pc = "u_work" /\ th'[t].pc = "u_rest") =>
                  /\ th'[t].data = WorkFields(axes, first)
                  /\ Len(th'[t].data) = 3 + 3 * 4
            /\ (th[t].pc = "u_rest" /\ th'[t].pc = "u_lock") =>
                  LET frame == Pad(th'[t].data)
                  IN  /\ Len(frame) = 42
                      /\ frame = th[t].data
                                   \o RestFields(axes, first, icon, multiplier_code, units)
                                   \o [i \in 1..reserved |-> 0]
                      /\ Len(th[t].data) = 15
                      /\ SubSeq(frame, 1, 3) = << 254, 253, 12 >>
                      /\ frame[36] = BitOr(icon, multiplier_code)
                      /\ frame[37] = units
                      /\ Len(frame) - 37 = reserved
                      /\ \A i \in 1..42 : frame[i] \in 0..255

\* C21: every outbound frame is exactly 42 bytes: header 0xFE, 0xFD, 0x0C,
\* six 4-byte float fields, four 2-byte rate fields, the status byte (icon
\* OR multiplier code), the units byte, then 5 reserved bytes of zero.
C21_FrameLayout == [][FrameLayout(5)]_vars

\* C21 as first stated: the same layout with 6 reserved bytes of zero
C21_FrameLayoutSixReserved == [][FrameLayout(6)]_vars

\* C21, its case: a frame assembled with a feed setpoint of 100 stored,
\* whose padded form ends in five bytes of zero after the units byte
C21_FrameWithSetpoint ==
    \E t \in Threads :
        /\ th[t].pc = "u_lock"
        /\ axes["feed"].machine_coordinate = 100
        /\ Len(Pad(th[t].data)) = 42
        /\ SubSeq(Pad(th[t].data), 32, 33) = << 100, 0 >>
        /\ SubSeq(Pad(th[t].data), 36, 42) = << 1, 0, 0, 0, 0, 0, 0 >>

\* C22: in every frame the first work-coordinate slot and the first
\* machine-coordinate slot come from the same axis, both from a or both
\* from x, whatever the receive loop does to the switch meanwhile.
C22_FirstSlotsSameAxis ==
    \A t \in Threads : th[t].pc = "u_lock" => th[t].selW = th[t].selM

\* the stored values with those of 'feed-actual' and 'spindle-actual' as
\* reset left them
WithoutActuals(ax) ==
    [ax EXCEPT !["feed-actual"] = [work_coordinate |-> 0, machine_coordinate |-> 0],
               !["spindle-actual"] = [work_coordinate |-> 0, machine_coordinate |-> 0]]

\* C23: axis_value takes 'feed-actual' and 'spindle-actual' as known axes
\* and stores their values, but no frame reads them: every frame is, byte
\* for byte, the frame of the same state with those two axes never set; its
\* actual slots encode the work coordinate of 'feed' and 'spindle' and its
\* setpoint slots their machine coordinate.
C23_ActualAxesUnread ==
    [][/\ (th[Main].pc = "m_idle" /\ call'.op = "axis_value" /\ call' # call
              /\ call'.name \in { "feed-actual", "spindle-actual" }) =>
            /\ ~call'.fatal
            /\ running' = running
            /\ call'.setW => axes'[call'.name].work_coordinate = call'.w
            /\ call'.setM => axes'[call'.name].machine_coordinate = call'.m
            /\ WithoutActuals(axes') = WithoutActuals(axes)
       /\ \A t \in Threads :
            LET first == IF axis_switch = "a" THEN "a" ELSE "x"
            IN  /\ (th[t].pc = "u_work" /\ th'[t].pc = "u_rest") =>
                      th'[t].data = WorkFields(WithoutActuals(axes), first)
                /\ (th[t].pc = "u_rest" /\ th'[t].pc = "u_lock") =>
                      LET frame == Pad(th'[t].data)
                      IN  /\ SubSeq(frame, 16, 37) =
                                 RestFields(WithoutActuals(axes), first, icon,
                                            multiplier_code, units)
                          /\ SubSeq(frame, 28, 29) =
                                 encode_s16(axes["feed"].work_coordinate).bytes
                          /\ SubSeq(frame, 30, 31) =
                                 encode_s16(axes["spindle"].work_coordinate).bytes
                          /\ SubSeq(frame, 32, 33) =
                                 encode_s16(axes["feed"].machine_coordinate).bytes
                          /\ SubSeq(frame, 34, 35) =
                                 encode_s16(axes["spindle"].machine_coordinate).bytes
      ]_vars

\* C23, its case: with a value stored on 'feed-actual', a frame has been
\* assembled whose feed actual slot shows the (zero) work coordinate of
\* 'feed'
C23_FeedActualSet ==
    \E t \in Threads :
        /\ th[t].pc = "u_lock"
        /\ call.op = "axis_value" /\ call.name = "feed-actual"
        /\ axes["feed-actual"].work_coordinate # 0
        /\ axes["feed"].work_coordinate = 0
        /\ SubSeq(th[t].data, 28, 29) = << 0, 0 >>

====
